---- MODULE Spec2Model ----
(***************************************************************************)
(* The LTI 1.3 example tool (game/game/views.py, game/game/urls.py) as a   *)
(* request/response state machine.                                         *)
(*                                                                         *)
(* Persistent state: the launch-state cache (launch id -> validated launch *)
(* data) and the platform gradebook's "score" line item.  Per-request      *)
(* state: the request being answered (req) and the outcome of its handler  *)
(* (resp).  Django builds a fresh view object for every request, so one    *)
(* action runs one whole handler (dispatch included) from the idle state,  *)
(* and Respond drops the per-request state again.                          *)
(*                                                                         *)
(* Results of calls into pylti1p3 / the platform that the views only       *)
(* consume (signature check, nonce check, role checks, service outcomes,   *)
(* roster, grades) are inputs of the request, drawn from small sets.       *)
(***************************************************************************)
EXTENDS Integers, Sequences, FiniteSets

VARIABLES cache, lineitem, req, resp

vars == <<cache, lineitem, req, resp>>

(* ---------------------------------------------------------------- bounds *)

\* Launches the cache can hold (launch ids 1..MaxLaunches are minted).
MaxLaunches == 2
\* Members in a roster returned by the roster service.
MaxMembers == 2
\* Score entries returned by the grade service.
MaxScores == 2

(* ------------------------------------------------------------- constants *)

\* views.py:38, the issuer of the IMS reference implementation.
IMS_ISS == "http://imsglobal.org"
Issuers == {IMS_ISS, "https://lms.example.org"}

Methods == {"GET", "POST", "PUT"}

\* Python's None: a launch id that is not given.
Absent == 0
LaunchIds == 1..MaxLaunches
\* Ids a request can carry: every mintable id and one that is never minted.
RequestIds == 1..(MaxLaunches + 1)

\* Users known to the platform: the roster's members are 1..n, and one more
\* user who can have results without being in the roster.
Users == 1..(MaxMembers + 1)

RECURSIVE SeqsUpTo(_, _)
SeqsUpTo(S, n) ==
    IF n = 0 THEN {<<>>}
    ELSE LET shorter == SeqsUpTo(S, n - 1)
         IN  shorter \cup {Append(s, x) : s \in {t \in shorter : Len(t) = n - 1}, x \in S}

\* The grade service's answers: lists of score entries, each with a userId.
ScoreLists == SeqsUpTo(Users, MaxScores)

\* A cache slot holding nothing.
NoLaunch == [cached |-> FALSE, deep |-> FALSE, ags |-> FALSE, create |-> FALSE, nrps |-> FALSE]

\* What the views read from a cached launch: the message type, the AGS
\* endpoint claim (and whether its scopes allow creating line items), and
\* the NRPS claim.  The line-item scope is part of the AGS claim.
LaunchData ==
    {d \in [cached : {TRUE}, deep : BOOLEAN, ags : BOOLEAN, create : BOOLEAN, nrps : BOOLEAN] :
        d.create => d.ags}

(* ------------------------------------------------------ requests, replies *)

NoReq ==
    [view |-> "none", method |-> "GET", url |-> Absent, post |-> Absent,
     iss |-> IMS_ISS, deep |-> FALSE, preOk |-> FALSE, nonceOk |-> FALSE, postOk |-> FALSE,
     teacher |-> FALSE, ta |-> FALSE, student |-> FALSE,
     target |-> FALSE, score |-> "missing", outcome |-> "ok", n |-> 0, scores |-> <<>>]

Response(status, body, calls) ==
    [status |-> status, body |-> body, calls |-> calls, launch_id |-> Absent, members |-> <<>>]

NoResp == Response(0, "", <<>>)

Called(c) == \E i \in 1..Len(resp.calls) : resp.calls[i] = c

\* Position of the first call named c in the reply's log (0: never called).
FirstCall(c) ==
    IF Called(c) THEN CHOOSE i \in 1..Len(resp.calls) :
                          resp.calls[i] = c /\ \A j \in 1..(i - 1) : resp.calls[j] # c
    ELSE 0

\* request.POST is filled from the body of a POST request only.
Requests(urls) ==
    {r \in [method : Methods, url : urls, post : {Absent} \cup RequestIds] :
        r.method # "POST" => r.post = Absent}

Idle == req.view = "none"

Init ==
    /\ cache = [i \in LaunchIds |-> NoLaunch]
    /\ lineitem = FALSE
    /\ req = NoReq
    /\ resp = NoResp

(* ------------------------------------------------------------ django View *)

\* django.views.View.dispatch: the handler named after the method, or 405.
View_dispatch(method, handlers, calls, handled) ==
    IF method \in handlers THEN handled
    ELSE Response(405, "HttpResponseNotAllowed", calls)

(* ------------------------------------------------------------- LoginView *)

\* LoginView.get_launch_url: the target_link_uri parameter, or an Exception.
LoginView_get_launch_url(target) == IF target THEN "target_link_uri" ELSE "Exception"

\* LoginView.dispatch.  It overrides View.dispatch without calling it, so
\* http_method_names (views.py:90) is never consulted: the method is not read.
LoginView_dispatch(method, target) ==
    IF LoginView_get_launch_url(target) = "Exception"
    THEN Response(500, "Exception", <<"DjangoOIDCLogin">>)
    ELSE Response(302, "redirect", <<"DjangoOIDCLogin", "enable_check_cookies", "redirect">>)

LoginRequests == [method : Methods, target : BOOLEAN]

LoginView ==
    /\ Idle
    /\ \E r \in LoginRequests :
        /\ req' = [NoReq EXCEPT !.view = "login", !.method = r.method, !.target = r.target]
        /\ resp' = LoginView_dispatch(r.method, r.target)
    /\ UNCHANGED <<cache, lineitem>>

(* ------------------------------------------------------------ LaunchView *)

\* DjangoMessageLaunch.validate_nonce of the library: the nonce check proper.
super_validate_nonce(nonceOk) == IF nonceOk THEN "ok" ELSE "LtiException"

\* A variant of validate_nonce that skips for the issuer or for a deep link.
validate_nonce_or(iss, deep_link_launch, nonceOk) ==
    IF iss = IMS_ISS \/ deep_link_launch THEN "skipped"
    ELSE super_validate_nonce(nonceOk)

\* ExtendedDjangoMessageLaunch.validate_nonce.
validate_nonce(iss, deep_link_launch, nonceOk) ==
    IF iss = IMS_ISS /\ deep_link_launch THEN "skipped"
    ELSE super_validate_nonce(nonceOk)

\* A variant of get_template_names that tests the student role first.
get_template_names_student_first(teacher, ta, student, deep) ==
    IF student THEN "student.html"
    ELSE IF teacher \/ ta
         THEN IF deep THEN "deep_link.html" ELSE "teacher.html"
         ELSE "Exception"

\* LaunchView.get_template_names.
get_template_names(teacher, ta, student, deep) ==
    IF teacher \/ ta
    THEN IF deep THEN "deep_link.html" ELSE "teacher.html"
    ELSE IF student THEN "student.html"
         ELSE "Exception"

\* The launch's inputs.  An input the handler never reads (the request is
\* rejected before) is left at its default.
LaunchRequests ==
    {r \in [method : Methods, iss : Issuers, deep : BOOLEAN, preOk : BOOLEAN,
            nonceOk : BOOLEAN, postOk : BOOLEAN,
            teacher : BOOLEAN, ta : BOOLEAN, student : BOOLEAN] :
        /\ r.method # "POST" => ~r.preOk
        /\ ~r.preOk => r.iss = IMS_ISS /\ ~r.deep /\ ~r.nonceOk
        /\ (r.iss = IMS_ISS /\ r.deep) => ~r.nonceOk
        /\ (~r.preOk \/ validate_nonce(r.iss, r.deep, r.nonceOk) = "LtiException") => ~r.postOk
        /\ ~r.postOk => ~r.teacher /\ ~r.ta /\ ~r.student}

LaunchReq(r) ==
    [NoReq EXCEPT !.view = "launch", !.method = r.method, !.iss = r.iss, !.deep = r.deep,
                  !.preOk = r.preOk, !.nonceOk = r.nonceOk, !.postOk = r.postOk,
                  !.teacher = r.teacher, !.ta = r.ta, !.student = r.student]

\* The calls of validate() up to and including validate_nonce.
NonceCalls(r) ==
    <<"validate_jwt_format", "get_iss", "is_deep_link_launch">>
    \o (IF validate_nonce(r.iss, r.deep, r.nonceOk) = "skipped" THEN <<>>
        ELSE <<"super.validate_nonce">>)

\* The launch id minted by the constructor of the message launch (a fresh
\* uuid): here the lowest id not in the cache.
FreshId == CHOOSE i \in LaunchIds : cache[i] = NoLaunch /\ \A j \in LaunchIds : j < i => cache[j] # NoLaunch

\* LTIView.dispatch, View.dispatch, LaunchView.post: get_context_data reads
\* the launch data, which validates the launch and saves it in the cache;
\* render_to_response then asks get_template_names.
LaunchView ==
    /\ Idle
    /\ \E r \in LaunchRequests :
        /\ req' = LaunchReq(r)
        /\ IF r.method # "POST"
           THEN /\ resp' = View_dispatch(r.method, {"POST"}, <<>>, NoResp)
                /\ UNCHANGED cache
           ELSE IF ~r.preOk
           THEN /\ resp' = Response(500, "LtiException", <<"validate_jwt_format">>)
                /\ UNCHANGED cache
           ELSE IF validate_nonce(r.iss, r.deep, r.nonceOk) = "LtiException"
           THEN /\ resp' = Response(500, "LtiException", NonceCalls(r))
                /\ UNCHANGED cache
           ELSE IF ~r.postOk
           THEN /\ resp' = Response(500, "LtiException", NonceCalls(r) \o <<"validate_jwt_signature">>)
                /\ UNCHANGED cache
           ELSE /\ \E i \in LaunchIds : cache[i] = NoLaunch
                /\ \E d \in LaunchData :
                    /\ d.deep = r.deep
                    /\ cache' = [cache EXCEPT ![FreshId] = d]
                /\ LET t == get_template_names(r.teacher, r.ta, r.student, r.deep)
                       calls == NonceCalls(r) \o <<"validate_jwt_signature", "save_launch_data">>
                   IN  resp' = [Response(IF t = "Exception" THEN 500 ELSE 200, t, calls)
                                   EXCEPT !.launch_id = FreshId]
    /\ UNCHANGED lineitem

(* ------------------------------------------------- LTIView, CachedLTIView *)

\* CachedLTIView.get_launch_id: request.POST.get(key, kwargs.get(key)).
CachedLTIView_get_launch_id(post, url) == IF post # Absent THEN post ELSE url

\* A variant of SetScoreView.get_launch_id: the inherited resolution.
get_launch_id_inherited(post, url) == IF post # Absent THEN post ELSE url

\* SetScoreView.get_launch_id: kwargs['launch_id'].
SetScoreView_get_launch_id(post, url) == url

\* DjangoMessageLaunch.from_cache as CachedLTIView.get_message_launch uses
\* it: the launch cached under the id, or nothing, and then it raises
\* (LtiException "Launch data not found"; for no id at all, the storage's
\* own error).
from_cache(launch_id) ==
    IF launch_id \in LaunchIds THEN cache[launch_id] ELSE NoLaunch

\* CachedLTIView.get_message_launch.
CachedLTIView_get_message_launch(launch_id) == from_cache(launch_id)

\* A variant of LTIView.dispatch that goes on without a message launch.
LTIView_dispatch_unguarded(message_launch, dispatched) == dispatched

\* LTIView.dispatch: get_message_launch first (its exception ends the
\* request), then the dispatch of the view class.
LTIView_dispatch(message_launch, dispatched) ==
    IF ~message_launch.cached THEN Response(500, "from_cache raised", <<"from_cache">>)
    ELSE dispatched

In(c, calls) == \E i \in 1..Len(calls) : calls[i] = c

(* -------------------------------------------------------- LaunchDataView *)

\* LaunchDataView.get.
LaunchDataView_get(message_launch) ==
    Response(200, "launch_data.html", <<"from_cache", "get_launch_data", "get_launch_id">>)

LaunchDataView ==
    /\ Idle
    /\ \E r \in Requests(RequestIds) :
        LET launch_id == CachedLTIView_get_launch_id(r.post, r.url)
            message_launch == CachedLTIView_get_message_launch(launch_id)
        IN  /\ req' = [NoReq EXCEPT !.view = "launch_data", !.method = r.method,
                                    !.url = r.url, !.post = r.post]
            /\ resp' = [LTIView_dispatch(message_launch,
                            View_dispatch(r.method, {"GET"}, <<"from_cache">>,
                                          LaunchDataView_get(message_launch)))
                        EXCEPT !.launch_id = launch_id]
    /\ UNCHANGED <<cache, lineitem>>

(* -------------------------------------------------- CompleteDeepLinkView *)

\* A variant of CompleteDeepLinkView.post without the deep-link test.
CompleteDeepLinkView_post_unchecked(message_launch) ==
    Response(200, "deep_link_response_form",
             <<"from_cache", "is_deep_link_launch", "DeepLinkResource",
               "get_deep_link", "output_response_form">>)

\* CompleteDeepLinkView.post.
CompleteDeepLinkView_post(message_launch) ==
    IF ~message_launch.deep
    THEN Response(403, "Must be a deep link!", <<"from_cache", "is_deep_link_launch">>)
    ELSE Response(200, "deep_link_response_form",
                  <<"from_cache", "is_deep_link_launch", "DeepLinkResource",
                    "get_deep_link", "output_response_form">>)

\* urls.py:11: the path carries no launch id.
CompleteDeepLinkView ==
    /\ Idle
    /\ \E r \in Requests({Absent}) :
        LET launch_id == CachedLTIView_get_launch_id(r.post, r.url)
            message_launch == CachedLTIView_get_message_launch(launch_id)
        IN  /\ req' = [NoReq EXCEPT !.view = "complete_deep_link", !.method = r.method,
                                    !.url = r.url, !.post = r.post]
            /\ resp' = [LTIView_dispatch(message_launch,
                            View_dispatch(r.method, {"POST"}, <<"from_cache">>,
                                          CompleteDeepLinkView_post(message_launch)))
                        EXCEPT !.launch_id = launch_id]
    /\ UNCHANGED <<cache, lineitem>>

(* ---------------------------------------------------------- SetScoreView *)

\* The score parameter of the POST body: an integer literal, not given
\* (request.POST.get returns None), or text that is no integer.
ScoreParams == {"int", "missing", "malformed"}

\* views.py:239, int(self.request.POST.get('score')): TypeError for None,
\* ValueError for text that is no integer.
int(score) ==
    IF score = "int" THEN "ok"
    ELSE IF score = "missing" THEN "TypeError" ELSE "ValueError"

\* Outcomes of ags.put_grade: it returns, it raises LtiServiceException (the
\* platform answered with an error status), or it raises something else
\* (LtiException for a missing score scope, a connection error).
PutGradeOutcomes == {"ok", "LtiServiceException", "OtherException"}

\* The reply of SetScoreView.post once put_grade has been called.
SetScoreReply(outcome, calls) ==
    IF outcome = "ok" THEN Response(200, "json success=True", calls)
    ELSE IF outcome = "LtiServiceException"
         THEN Response(200, "json success=False str(e)", calls)
         ELSE Response(500, outcome, calls)

\* A variant of SetScoreView.post that never builds a line item.
SetScoreView_post_no_lineitem(message_launch, score, outcome) ==
    IF ~message_launch.ags
    THEN Response(403, "This launch doesn't provide a grades service!",
                  <<"from_cache", "get_launch_data", "has_ags">>)
    ELSE IF int(score) # "ok"
    THEN Response(500, int(score),
                  <<"from_cache", "get_launch_data", "has_ags", "get_launch_data">>)
    ELSE SetScoreReply(outcome, <<"from_cache", "get_launch_data", "has_ags", "get_launch_data", "get_ags",
                                  "can_create_lineitem", "Grade", "put_grade(grade)">>)

\* A variant of SetScoreView.post whose try has no except clause.
SetScoreView_post_uncaught(message_launch, score, outcome) ==
    IF ~message_launch.ags
    THEN Response(403, "This launch doesn't provide a grades service!",
                  <<"from_cache", "get_launch_data", "has_ags">>)
    ELSE IF int(score) # "ok"
    THEN Response(500, int(score),
                  <<"from_cache", "get_launch_data", "has_ags", "get_launch_data">>)
    ELSE LET calls == <<"from_cache", "get_launch_data", "has_ags", "get_launch_data", "get_ags",
                        "can_create_lineitem", "Grade">>
                      \o (IF message_launch.create
                          THEN <<"LineItem(score,100)", "put_grade(grade,lineitem)">>
                          ELSE <<"put_grade(grade)">>)
         IN  IF outcome = "ok" THEN Response(200, "json success=True", calls)
             ELSE Response(500, outcome, calls)

\* SetScoreView.post.  The launch data is read for the resource link and,
\* after has_ags, again for sub; int(score) fails on a missing or malformed
\* score before the grade service is asked for; only LtiServiceException is
\* caught.
SetScoreView_post(message_launch, score, outcome) ==
    IF ~message_launch.ags
    THEN Response(403, "This launch doesn't provide a grades service!",
                  <<"from_cache", "get_launch_data", "has_ags">>)
    ELSE IF int(score) # "ok"
    THEN Response(500, int(score),
                  <<"from_cache", "get_launch_data", "has_ags", "get_launch_data">>)
    ELSE SetScoreReply(outcome,
            <<"from_cache", "get_launch_data", "has_ags", "get_launch_data", "get_ags",
              "can_create_lineitem", "Grade">>
            \o (IF message_launch.create
                THEN <<"LineItem(score,100)", "put_grade(grade,lineitem)">>
                ELSE <<"put_grade(grade)">>))

\* put_grade with a line item finds the platform's line item with that tag
\* or creates it, then posts the score to it.  put_grade without one posts
\* to the line item the platform already has (views.py:220-224); it cannot
\* succeed while the gradebook has none.
SetScoreView ==
    /\ Idle
    /\ \E r \in Requests(RequestIds) :
        LET launch_id == SetScoreView_get_launch_id(r.post, r.url)
            message_launch == CachedLTIView_get_message_launch(launch_id)
            reads == r.method = "POST" /\ message_launch.ags
        IN  \E score \in (IF reads THEN ScoreParams ELSE {"missing"}) :
            \E outcome \in (IF reads /\ int(score) = "ok"
                            THEN (IF message_launch.create \/ lineitem
                                  THEN PutGradeOutcomes
                                  ELSE PutGradeOutcomes \ {"ok"})
                            ELSE {"ok"}) :
                /\ req' = [NoReq EXCEPT !.view = "set_score", !.method = r.method,
                                        !.url = r.url, !.post = r.post,
                                        !.score = score, !.outcome = outcome]
                /\ resp' = [LTIView_dispatch(message_launch,
                                View_dispatch(r.method, {"POST"}, <<"from_cache">>,
                                              SetScoreView_post(message_launch, score, outcome)))
                            EXCEPT !.launch_id = launch_id]
                /\ lineitem' = (lineitem \/ (outcome = "ok"
                                             /\ In("put_grade(grade,lineitem)", resp'.calls)))
    /\ UNCHANGED cache

(* -------------------------------------------------------- ScoreboardView *)

\* The roster service's answer: members with distinct user ids, none with a
\* score field (score 0) yet.  The teacher and student flags that
\* views.py:316-319 add to every member do not enter the join and are left out.
Roster(n) == [i \in 1..n |-> [user_id |-> i, score |-> 0]]

\* views.py:323-325: index the members by user_id (the last member with an
\* id wins) and attach each score entry, in order, to the member it names;
\* member_by_user[...] raises KeyError for a userId that is no member's.
\* A member's score is the position of the entry attached to it.
RECURSIVE join(_, _, _)
join(members, scores, i) ==
    IF i > Len(scores) THEN [raised |-> FALSE, members |-> members]
    ELSE LET hits == {j \in 1..Len(members) : members[j].user_id = scores[i]}
         IN  IF hits = {} THEN [raised |-> TRUE, members |-> members]
             ELSE LET j == CHOOSE j \in hits : \A k \in hits : k <= j
                  IN  join([members EXCEPT ![j].score = i], scores, i + 1)

\* What get_context_data hands back: a dict, an HttpResponseForbidden
\* object, or (raised) a KeyError.
Context(kind, calls, members) == [kind |-> kind, calls |-> calls, members |-> members]

\* ScoreboardView.get_context_data.
ScoreboardView_get_context_data(message_launch, n, scores) ==
    IF ~message_launch.nrps
    THEN Context("HttpResponseForbidden", <<"from_cache", "get_launch_data", "has_nrps">>, <<>>)
    ELSE IF ~message_launch.ags
    THEN Context("HttpResponseForbidden",
                 <<"from_cache", "get_launch_data", "has_nrps", "has_ags">>, <<>>)
    ELSE LET calls == <<"from_cache", "get_launch_data", "has_nrps", "has_ags", "get_ags",
                        "can_create_lineitem">>
                      \o (IF message_launch.create
                          THEN <<"LineItem(score,100)", "find_or_create_lineitem", "get_grades">>
                          ELSE <<"get_grades">>)
                      \o <<"get_members">>
             joined == join(Roster(n), scores, 1)
         IN  Context(IF joined.raised THEN "KeyError" ELSE "dict", calls, joined.members)

\* TemplateView.get: the context goes to render_to_response, whatever it
\* is.  A context that is no dict makes the template engine raise TypeError
\* ("context must be a dict rather than HttpResponseForbidden").
TemplateView_get(context) ==
    IF context.kind = "dict"
    THEN [Response(200, "scoreboard.html", context.calls) EXCEPT !.members = context.members]
    ELSE IF context.kind = "HttpResponseForbidden"
    THEN Response(500, "TypeError", context.calls)
    ELSE [Response(500, context.kind, context.calls) EXCEPT !.members = context.members]

ScoreboardView ==
    /\ Idle
    /\ \E r \in Requests(RequestIds) :
        LET launch_id == CachedLTIView_get_launch_id(r.post, r.url)
            message_launch == CachedLTIView_get_message_launch(launch_id)
            reads == r.method = "GET" /\ message_launch.nrps /\ message_launch.ags
        IN  \E n \in (IF reads THEN 0..MaxMembers ELSE {0}) :
            \E scores \in (IF reads THEN ScoreLists ELSE {<<>>}) :
                /\ req' = [NoReq EXCEPT !.view = "scoreboard", !.method = r.method,
                                        !.url = r.url, !.post = r.post,
                                        !.n = n, !.scores = scores]
                /\ resp' = [LTIView_dispatch(message_launch,
                                View_dispatch(r.method, {"GET"}, <<"from_cache">>,
                                    TemplateView_get(
                                        ScoreboardView_get_context_data(message_launch, n, scores))))
                            EXCEPT !.launch_id = launch_id]
                /\ lineitem' = (lineitem \/ In("find_or_create_lineitem", resp'.calls))
    /\ UNCHANGED cache

(* -------------------------------------------------------------- JWKSView *)

\* JWKSView.get: the tool configuration's key set as JSON.  LTIView.dispatch
\* builds a message launch from the request first, without validating it.
JWKSView_get == Response(200, "json jwks", <<"get_jwks">>)

JWKSView ==
    /\ Idle
    /\ \E method \in Methods :
        /\ req' = [NoReq EXCEPT !.view = "jwks", !.method = method]
        /\ resp' = View_dispatch(method, {"GET"}, <<>>, JWKSView_get)
    /\ UNCHANGED <<cache, lineitem>>

(* --------------------------------------------------------------- respond *)

\* The response is returned and the view object of the request is dropped.
Respond ==
    /\ ~Idle
    /\ req' = NoReq
    /\ resp' = NoResp
    /\ UNCHANGED <<cache, lineitem>>

Next ==
    \/ LoginView
    \/ LaunchView
    \/ LaunchDataView
    \/ CompleteDeepLinkView
    \/ SetScoreView
    \/ ScoreboardView
    \/ JWKSView
    \/ Respond

Spec == Init /\ [][Next]_vars

(* ================================================================ claims *)

CachedViews == {"launch_data", "complete_deep_link", "set_score", "scoreboard"}

\* The cache entry of the launch id the current request resolved to.
Resolved == from_cache(resp.launch_id)

\* The launch was validated: get_template_names has been asked.
Validated == req.view = "launch" /\ req.method = "POST" /\ req.postOk

\* C1 as stated: for every combination of role flags and the deep-link flag,
\* teacher/TA + deep link selects the deep-link template, teacher/TA without
\* deep link the teacher template, student access the student template, and
\* any other role fails.
C1_Original ==
    Validated =>
        /\ ((req.teacher \/ req.ta) /\ req.deep) => resp.body = "deep_link.html"
        /\ ((req.teacher \/ req.ta) /\ ~req.deep) => resp.body = "teacher.html"
        /\ req.student => resp.body = "student.html"
        /\ (~req.teacher /\ ~req.ta /\ ~req.student) =>
               (resp.status = 500 /\ resp.body = "Exception")

\* C1 amended: as C1, but the student template is selected when the caller
\* has student access and neither teacher nor teaching-assistant access
\* (the teacher/TA test comes first).
C1_TemplateByRole ==
    Validated =>
        /\ ((req.teacher \/ req.ta) /\ req.deep) =>
               (resp.status = 200 /\ resp.body = "deep_link.html")
        /\ ((req.teacher \/ req.ta) /\ ~req.deep) =>
               (resp.status = 200 /\ resp.body = "teacher.html")
        /\ (req.student /\ ~req.teacher /\ ~req.ta) =>
               (resp.status = 200 /\ resp.body = "student.html")
        /\ (~req.teacher /\ ~req.ta /\ ~req.student) =>
               (resp.status = 500 /\ resp.body = "Exception")

C1_Witness ==
    Validated /\ req.teacher /\ req.student /\ ~req.deep /\ resp.body = "teacher.html"

\* C2: a view built on CachedLTIView whose resolved launch id is absent or
\* has no cache entry fails during dispatch: nothing but the cache lookup is
\* called, no members are produced, and the reply is the propagated error.
C2_FailClosed ==
    (req.view \in CachedViews /\ ~Resolved.cached) =>
        /\ resp.status = 500
        /\ resp.body = "from_cache raised"
        /\ resp.calls = <<"from_cache">>
        /\ resp.members = <<>>

C2_Witness ==
    /\ req.view = "set_score" /\ req.method = "POST"
    /\ resp.launch_id \in RequestIds /\ ~Resolved.cached
    /\ \E i \in LaunchIds : cache[i].cached
    /\ resp.status = 500

PutGradeCalled(calls) == In("put_grade(grade)", calls) \/ In("put_grade(grade,lineitem)", calls)

\* C3 as stated: whenever the score handler submits a grade, a line item
\* tagged "score" (maximum 100) is built before the submission if the
\* gradebook has no such line item yet, and none is built if it has one.
C3_Original ==
    [][(req'.view = "set_score" /\ PutGradeCalled(resp'.calls)) =>
          /\ ~lineitem => In("LineItem(score,100)", resp'.calls)
          /\ lineitem => ~In("LineItem(score,100)", resp'.calls)]_vars

\* C3 amended: the handler decides by the launch's permission to create line
\* items, not by whether one exists: when can_create_lineitem() holds, a
\* line item tagged "score" (maximum 100) is built before the grade is
\* submitted and handed to put_grade with it; otherwise only the grade is
\* submitted and no line item is built.
C3_LineItemByScope ==
    (req.view = "set_score" /\ PutGradeCalled(resp.calls)) =>
        IF Resolved.create
        THEN /\ Called("LineItem(score,100)")
             /\ Called("put_grade(grade,lineitem)")
             /\ FirstCall("LineItem(score,100)") < FirstCall("put_grade(grade,lineitem)")
             /\ ~Called("put_grade(grade)")
        ELSE /\ Called("put_grade(grade)")
             /\ ~Called("LineItem(score,100)")
             /\ ~Called("put_grade(grade,lineitem)")

C3_Witness ==
    /\ req.view = "set_score" /\ req.outcome = "ok"
    /\ Resolved.create /\ lineitem
    /\ Called("put_grade(grade,lineitem)")

\* C4: a GET of the scoreboard for a cached launch without roster or without
\* grade-service capability is answered with 403, and neither service is
\* called.
C4_Forbidden ==
    (req.view = "scoreboard" /\ req.method = "GET" /\ Resolved.cached
     /\ (~Resolved.nrps \/ ~Resolved.ags)) =>
        /\ resp.status = 403
        /\ ~Called("get_ags") /\ ~Called("get_grades") /\ ~Called("get_members")

\* C5: deep-link completion on a cached launch that is no deep-link launch
\* is answered with 403 and builds nothing; the deep-link resource and the
\* response builder are used only for a cached deep-link launch.
C5_DeepLinkGuard ==
    req.view = "complete_deep_link" =>
        /\ (Called("DeepLinkResource") \/ Called("get_deep_link") \/ Called("output_response_form"))
               => (Resolved.cached /\ Resolved.deep)
        /\ (req.method = "POST" /\ Resolved.cached /\ ~Resolved.deep) =>
               /\ resp.status = 403
               /\ ~Called("DeepLinkResource")
               /\ ~Called("get_deep_link")
               /\ ~Called("output_response_form")

C5_Witness ==
    /\ req.view = "complete_deep_link" /\ req.method = "POST"
    /\ Resolved.cached /\ ~Resolved.deep
    /\ resp.status = 403

\* C6 as stated: whenever the grade-service call fails, on either branch,
\* the reply is a JSON payload with success false and status 200; success
\* true is returned only when the call succeeded.
C6_Original ==
    (req.view = "set_score" /\ PutGradeCalled(resp.calls)) =>
        /\ req.outcome # "ok" =>
               (resp.status = 200 /\ resp.body = "json success=False str(e)")
        /\ resp.body = "json success=True" => req.outcome = "ok"

\* C6 amended: whenever the grade-service call fails with an
\* LtiServiceException, on either branch, the reply is a JSON payload with
\* success false and the error's string form, with status 200; any other
\* exception of the call propagates as a server error; success true is
\* returned only when the call succeeded.
C6_ServiceExceptionCaught ==
    (req.view = "set_score" /\ PutGradeCalled(resp.calls)) =>
        /\ req.outcome = "LtiServiceException" =>
               (resp.status = 200 /\ resp.body = "json success=False str(e)")
        /\ req.outcome = "OtherException" => resp.status = 500
        /\ resp.body = "json success=True" => (req.outcome = "ok" /\ resp.status = 200)

C6_Witness ==
    /\ req.view = "set_score" /\ req.outcome = "LtiServiceException"
    /\ Called("put_grade(grade,lineitem)")
    /\ resp.status = 200 /\ resp.body = "json success=False str(e)"

\* C7: after the scoreboard join, every roster member has a score field
\* exactly when some score entry names the member, and the field is such an
\* entry.
C7_JoinExact ==
    (req.view = "scoreboard" /\ Called("get_members")) =>
        /\ Len(resp.members) = req.n
        /\ \A j \in 1..Len(resp.members) :
            LET m == resp.members[j]
            IN  /\ (m.score # 0) <=> (\E i \in 1..Len(req.scores) : req.scores[i] = m.user_id)
                /\ m.score # 0 => req.scores[m.score] = m.user_id

\* C8: the login handler starts the OIDC login and redirects only for GET
\* and POST requests.
C8_LoginMethods ==
    (req.view = "login" /\ req.method \notin {"GET", "POST"}) =>
        /\ ~Called("DjangoOIDCLogin")
        /\ ~Called("redirect")
        /\ resp.status # 302

\* C9: once validation reaches the nonce step, the library's nonce check is
\* skipped exactly when the issuer is http://imsglobal.org and the launch is
\* a deep-link launch; whenever it runs and fails, the launch is rejected
\* and not cached.
C9_NonceSkip ==
    (req.view = "launch" /\ req.preOk) =>
        /\ ~Called("super.validate_nonce") <=> (req.iss = "http://imsglobal.org" /\ req.deep)
        /\ (Called("super.validate_nonce") /\ ~req.nonceOk) =>
               /\ resp.status = 500 /\ resp.body = "LtiException"
               /\ ~Called("save_launch_data")
               /\ resp.launch_id = Absent

C9_Witness ==
    /\ req.view = "launch" /\ req.preOk
    /\ req.iss = "http://imsglobal.org" /\ ~req.deep /\ ~req.nonceOk
    /\ Called("super.validate_nonce")
    /\ resp.status = 500

\* C10: the cached views look up the POST parameter launch_id when the body
\* carries one and the URL's launch_id otherwise; the score handler always
\* looks up the URL's launch_id, so only that id's cache entry decides
\* whether its handler runs.
C10_LaunchIdResolution ==
    /\ req.view \in {"launch_data", "complete_deep_link", "scoreboard"} =>
           /\ resp.launch_id = (IF req.post # Absent THEN req.post ELSE req.url)
           /\ (resp.body = "from_cache raised") <=>
                  ~from_cache(IF req.post # Absent THEN req.post ELSE req.url).cached
    /\ req.view = "set_score" =>
           /\ resp.launch_id = req.url
           /\ (resp.body = "from_cache raised") <=> ~from_cache(req.url).cached

C10_Witness ==
    /\ req.view = "set_score" /\ req.method = "POST"
    /\ req.post # Absent /\ req.post # req.url
    /\ ~from_cache(req.post).cached
    /\ resp.launch_id = req.url
    /\ resp.status = 200

====
